---- MODULE Spec2Model ----
(***************************************************************************)
(* A model of src/src/lib.rs: six HTTP handlers (list, put, get, delete,   *)
(* structured_put, structured_get) that are stateless transforms over one  *)
(* external key-value store.  The state is the store, the request handled  *)
(* last with its response and the store call it made, and a history of     *)
(* the last mutation of each key.                                          *)
(*                                                                         *)
(* Texts (query parameters, keys, JSON strings and numbers) are sequences  *)
(* of one-character strings, so that parsing and formatting are computed.  *)
(* A byte payload is either non-JSON bytes or the text of a JSON object,   *)
(* kept as its member list; lexing of JSON text is not modelled.           *)
(***************************************************************************)
EXTENDS Integers, Sequences, FiniteSets, TLC

VARIABLES store, req, resp, call, lastWrite, handled

vars == <<store, req, resp, call, lastWrite, handled>>

\* Bound of the model: how many requests a behaviour handles.
MaxRequests == 2

-----------------------------------------------------------------------------
(* Option<T> *)

None == [some |-> FALSE]

Some(x) == [some |-> TRUE, v |-> x]

-----------------------------------------------------------------------------
(* Integer parsing and formatting *)

I32Max == 2147483647

I32Min == (-2147483647) - 1

Digits == <<"0", "1", "2", "3", "4", "5", "6", "7", "8", "9">>

DigitValues == [c \in {Digits[i] : i \in 1..10} |-> (CHOOSE i \in 1..10 : Digits[i] = c) - 1]

IsDigit(c) == c \in DOMAIN DigitValues

DigitValue(c) == DigitValues[c]

AllDigits(text) == \A i \in 1..Len(text) : IsDigit(text[i])

\* The text without its leading zeros (the empty text for zero).
RECURSIVE StripZeros(_)
StripZeros(text) ==
    IF text # <<>> /\ Head(text) = "0" THEN StripZeros(Tail(text)) ELSE text

\* Lexicographic a > b for digit texts of one length.
RECURSIVE DigitsGreater(_, _)
DigitsGreater(a, b) ==
    IF a = <<>> THEN FALSE
    ELSE IF DigitValue(Head(a)) # DigitValue(Head(b))
         THEN DigitValue(Head(a)) > DigitValue(Head(b))
         ELSE DigitsGreater(Tail(a), Tail(b))

\* The magnitude written by `text` (all digits) exceeds the one written by `max`.
Exceeds(text, max) ==
    LET t == StripZeros(text)
    IN  \/ Len(t) > Len(max)
        \/ Len(t) = Len(max) /\ DigitsGreater(t, max)

\* The value of a digit text, accumulated digit by digit as from_str does.
RECURSIVE Accumulate(_, _)
Accumulate(acc, text) ==
    IF text = <<>> THEN acc
    ELSE Accumulate(acc * 10 + DigitValue(Head(text)), Tail(text))

\* The same, accumulated downwards (for negative numbers, so that the
\* minimum is reached without overflow).
RECURSIVE AccumulateNeg(_, _)
AccumulateNeg(acc, text) ==
    IF text = <<>> THEN acc
    ELSE AccumulateNeg(acc * 10 - DigitValue(Head(text)), Tail(text))

U64MaxText ==
    <<"1", "8", "4", "4", "6", "7", "4", "4", "0", "7",
      "3", "7", "0", "9", "5", "5", "1", "6", "1", "5">>

ParseErr == [ok |-> FALSE, v |-> 0]

ParseOk(n) == [ok |-> TRUE, v |-> n]

\* str::parse::<u64>: an optional "+", then one or more digits, no overflow.
\* A "-" is an invalid digit for an unsigned type.  (The type parsed to is
\* inferred from the store's limit(u64) and expiration_ttl(u64) options.)
parse_u64(text) ==
    LET digits == IF text # <<>> /\ Head(text) = "+" THEN Tail(text) ELSE text
    IN  IF digits = <<>> \/ ~AllDigits(digits) \/ Exceeds(digits, U64MaxText)
        THEN ParseErr
        ELSE ParseOk(Accumulate(0, digits))

I32MaxText == <<"2", "1", "4", "7", "4", "8", "3", "6", "4", "7">>

I32MinMagnitudeText == <<"2", "1", "4", "7", "4", "8", "3", "6", "4", "8">>

\* A JSON number read as i32: an optional "-", then "0" or digits without a
\* leading zero, within the 32-bit signed range.
json_number_i32(text) ==
    LET neg    == text # <<>> /\ Head(text) = "-"
        digits == IF neg THEN Tail(text) ELSE text
    IN  IF \/ digits = <<>>
           \/ ~AllDigits(digits)
           \/ Len(digits) > 1 /\ Head(digits) = "0"
           \/ Exceeds(digits, IF neg THEN I32MinMagnitudeText ELSE I32MaxText)
        THEN ParseErr
        ELSE ParseOk(IF neg THEN AccumulateNeg(0, digits) ELSE Accumulate(0, digits))

\* The decimal digits of n <= 0, most significant first (empty for 0).
RECURSIVE NegDigits(_)
NegDigits(n) ==
    IF n = 0 THEN <<>>
    ELSE LET d == (10 - (n % 10)) % 10
         IN  Append(NegDigits((n + d) \div 10), Digits[d + 1])

\* The decimal text of an i32, as the JSON serializer writes it.
itoa(n) ==
    IF n = 0 THEN <<"0">>
    ELSE IF n < 0 THEN <<"-">> \o NegDigits(n)
    ELSE NegDigits(-n)

-----------------------------------------------------------------------------
(* Byte payloads, JSON and the StructuredValue schema *)

\* Bytes that are not JSON text.
RawBytes(b) == [json |-> FALSE, raw |-> b, members |-> <<>>]

\* The text of a JSON object, as its members in the order written.
JsonObject(members) == [json |-> TRUE, raw |-> <<>>, members |-> members]

JString(s) == [t |-> "string", text |-> s]

JNumber(text) == [t |-> "number", text |-> text]

\* struct StructuredValue { foo: String, bar: i32 }
StructuredValue(foo, bar) == [foo |-> foo, bar |-> bar]

DeErr == [ok |-> FALSE, value |-> StructuredValue(<<>>, 0)]

DeOk(value) == [ok |-> TRUE, value |-> value]

\* Serialize: the fields in declaration order, bar in decimal.
to_json(value) ==
    JsonObject(<< <<"foo", JString(value.foo)>>,
                  <<"bar", JNumber(itoa(value.bar))>> >>)

\* The derived Deserialize visitor: members in any order, unknown members
\* skipped, a duplicate, mistyped, out-of-range or missing field an error.
RECURSIVE visit_map(_, _, _)
visit_map(members, foo, bar) ==
    IF members = <<>>
    THEN IF foo.some /\ bar.some THEN DeOk(StructuredValue(foo.v, bar.v)) ELSE DeErr
    ELSE LET name == Head(members)[1]
             node == Head(members)[2]
         IN  IF name = "foo"
             THEN IF foo.some \/ node.t # "string" THEN DeErr
                  ELSE visit_map(Tail(members), Some(node.text), bar)
             ELSE IF name = "bar"
             THEN IF bar.some \/ node.t # "number" \/ ~json_number_i32(node.text).ok
                  THEN DeErr
                  ELSE visit_map(Tail(members), foo, Some(json_number_i32(node.text).v))
             ELSE visit_map(Tail(members), foo, bar)

\* Deserialize a payload as StructuredValue.
from_json(payload) ==
    IF payload.json THEN visit_map(payload.members, None, None) ELSE DeErr

-----------------------------------------------------------------------------
(* The key-value store capability.  The store is external: its operations  *)
(* are modelled as the specification's section 6 states them (an atomic     *)
(* write of value and metadata or of value and ttl, a combined read, a      *)
(* typed read that reports an entry it cannot deserialize as a             *)
(* serialization error, a delete that accepts a missing key, an enumerate   *)
(* bounded by limit and filtered by prefix).                                *)

\* The keys of the model, in the store's (lexicographic) listing order.
KeyOrder == << <<"a">>, <<"a", "b">>, <<"b">> >>

Keys == {KeyOrder[i] : i \in 1..Len(KeyOrder)}

\* struct ExampleMetadata { content_type: String }
ExampleMetadata(content_type) == [content_type |-> content_type]

Entry(value, metadata, expiration_ttl) ==
    [value |-> value, metadata |-> metadata, expiration_ttl |-> expiration_ttl]

EmptyStore == [k \in Keys |-> None]

kv_put_bytes(st, key, bytes, metadata) ==
    [st EXCEPT ![key] = Some(Entry(bytes, Some(metadata), None))]

kv_put(st, key, payload, expiration_ttl) ==
    [st EXCEPT ![key] = Some(Entry(payload, None, expiration_ttl))]

kv_delete(st, key) == [st EXCEPT ![key] = None]

\* (maybe_value, maybe_metadata) of one combined read.
kv_bytes_with_metadata(st, key) ==
    IF st[key].some THEN <<Some(st[key].v.value), st[key].v.metadata>>
    ELSE <<None, None>>

JsonResult(kind, value) == [kind |-> kind, value |-> value]

\* Ok(Some(value)), Ok(None) or Err(KvError::Serialization).
kv_json(st, key) ==
    IF ~st[key].some THEN JsonResult("Ok(None)", DeErr.value)
    ELSE LET de == from_json(st[key].v.value)
         IN  IF de.ok THEN JsonResult("Ok(Some)", de.value)
             ELSE JsonResult("Err(Serialization)", DeErr.value)

\* Any other failure of a store call.
KvOtherError == JsonResult("Err(Other)", DeErr.value)

starts_with(text, prefix) ==
    Len(prefix) <= Len(text) /\ SubSeq(text, 1, Len(prefix)) = prefix

Min(a, b) == IF a <= b THEN a ELSE b

Listing(keys, list_complete) == [keys |-> keys, list_complete |-> list_complete]

\* The keys in the store that start with prefix, in order, at most limit of them.
kv_list(st, limit, prefix) ==
    LET matching == SelectSeq(KeyOrder, LAMBDA k : st[k].some /\ starts_with(k, prefix))
    IN  Listing(SubSeq(matching, 1, Min(limit, Len(matching))), Len(matching) <= limit)

-----------------------------------------------------------------------------
(* Requests, responses and store calls *)

Request(op, key, body, header, ttl, limit, prefix) ==
    [op |-> op, key |-> key, body |-> body, content_type |-> header,
     ttl |-> ttl, limit |-> limit, prefix |-> prefix]

NoRequest == Request("none", <<>>, RawBytes(<<>>), None, None, None, None)

\* A response: its status, its text body (Response::ok, Response::error), its
\* byte body (from_bytes, from_json of a value), the content-type header the
\* handler sets itself, and its listing (from_json of a list).
Response(status, text, bytes, content_type, listing) ==
    [status |-> status, text |-> text, bytes |-> bytes,
     content_type |-> content_type, listing |-> listing]

NoListing == Listing(<<>>, TRUE)

NoResponse == Response(0, "", RawBytes(<<>>), None, NoListing)

Response_ok(text) == Response(200, text, RawBytes(<<>>), None, NoListing)

Response_error(text, status) == Response(status, text, RawBytes(<<>>), None, NoListing)

Response_from_bytes(bytes, content_type) == Response(200, "", bytes, content_type, NoListing)

Response_from_json_value(value) == Response(200, "", to_json(value), None, NoListing)

Response_from_json_list(listing) == Response(200, "", RawBytes(<<>>), None, listing)

\* A store call's error, propagated by `?`: the runtime answers 500.
PropagatedError == Response_error("kv error", 500)

\* The store call a handler made: which, with which options, and whether the
\* store failed it.
KvCall(op, key, limit, prefix, ttl, failed) ==
    [op |-> op, key |-> key, limit |-> limit, prefix |-> prefix,
     ttl |-> ttl, failed |-> failed]

NoCall == KvCall("none", <<>>, 0, <<>>, None, FALSE)

Outcome(st, response, kvcall) == [store |-> st, resp |-> response, call |-> kvcall]

-----------------------------------------------------------------------------
(* The inputs of the model *)

\* A parameter text too large for 64 bits.
U64Overflow == SubSeq(U64MaxText, 1, 19) \o <<"6">>

ContentTypeHeaders == {None, Some("text/plain")}

\* The values requests carry.
ValueA == StructuredValue(<<"a">>, 12)

ValueB == StructuredValue(<<>>, -5)

\* {"bar": -5, "x": "a", "foo": ""}: ValueB with its members in another
\* order and a member the schema does not know.
ValueBReordered ==
    JsonObject(<< <<"bar", JNumber(<<"-", "5">>)>>,
                  <<"x", JString(<<"a">>)>>,
                  <<"foo", JString(<<>>)>> >>)

\* {"foo": "a"}: bar is missing.
BarMissing == JsonObject(<< <<"foo", JString(<<"a">>)>> >>)

ValidBodies == {to_json(ValueA), ValueBReordered}

\* The bodies requests to structured_put carry.
StructuredBodies == ValidBodies \cup {BarMissing}

\* More values, on which the handlers are evaluated outside the behaviours:
\* the ends of the i32 range, zero, longer texts.
SampleValues ==
    { ValueA, ValueB, StructuredValue(<<>>, I32Min), StructuredValue(<<"a">>, I32Max),
      StructuredValue(<<"a", "b">>, 0), StructuredValue(<<"b">>, -1090) }

\* More bodies that do not deserialize, for the same use: not JSON, empty,
\* bar a string, bar one more than the largest i32, bar one less than the
\* smallest, bar with a leading zero, foo a number, foo twice.
InvalidBodies ==
    { BarMissing, RawBytes(<<120>>), RawBytes(<<>>),
      JsonObject(<< <<"foo", JString(<<"a">>)>>, <<"bar", JString(<<"1">>)>> >>),
      JsonObject(<< <<"foo", JString(<<"a">>)>>, <<"bar", JNumber(I32MinMagnitudeText)>> >>),
      JsonObject(<< <<"foo", JString(<<"a">>)>>,
                    <<"bar", JNumber(<<"-">> \o SubSeq(I32MinMagnitudeText, 1, 9) \o <<"9">>)>> >>),
      JsonObject(<< <<"foo", JString(<<"a">>)>>, <<"bar", JNumber(<<"0", "1">>)>> >>),
      JsonObject(<< <<"foo", JNumber(<<"1">>)>>, <<"bar", JNumber(<<"1">>)>> >>),
      JsonObject(<< <<"foo", JString(<<"a">>)>>, <<"foo", JString(<<>>)>>,
                    <<"bar", JNumber(<<"1">>)>> >>) }

\* The bodies requests to put carry: empty, not JSON, and JSON that happens
\* to match the schema.
PutBodies == {RawBytes(<<>>), RawBytes(<<120>>), to_json(ValueA)}

\* The ttl parameters requests carry: absent, 0, 5, -5, abc.
TtlParams ==
    {None, Some(<<"0">>), Some(<<"5">>), Some(<<"-", "5">>), Some(<<"a", "b", "c">>)}

\* More ttl parameters, on which the handlers are evaluated outside the behaviours.
MoreTtlParams ==
    { Some(<<"+", "5">>), Some(<<>>), Some(<<"+">>), Some(<<"-">>), Some(<<"0", "6", "0">>),
      Some(<<"5", "a">>), Some(<<"-", "0">>), Some(U64Overflow) }

\* The limit parameters requests carry: absent, 2, 0, -1, abc.
LimitParams ==
    {None, Some(<<"2">>), Some(<<"0">>), Some(<<"-", "1">>), Some(<<"a", "b", "c">>)}

\* More limit parameters, for the same use.
MoreLimitParams ==
    {Some(<<"1">>), Some(<<"+", "3">>), Some(<<>>), Some(<<"1", "0", "0", "0">>), Some(U64Overflow)}

PrefixParams == {None, Some(<<"a">>)}

MorePrefixParams == {Some(<<>>), Some(<<"b">>), Some(<<"a", "b">>), Some(<<"b", "a">>)}

-----------------------------------------------------------------------------
(* The handlers: each gives the store, the response and the store call made *)

\* A faulty list_limit: unwrap_or_default() in place of unwrap_or(100).
list_limit_or_default(limit_param) ==
    IF limit_param.some /\ parse_u64(limit_param.v).ok
    THEN parse_u64(limit_param.v).v
    ELSE 0

\* unwrap_or(100)
DefaultLimit == 100

\* The limit option of list: the parsed parameter, or the default.
list_limit(limit_param) ==
    IF limit_param.some /\ parse_u64(limit_param.v).ok
    THEN parse_u64(limit_param.v).v
    ELSE DefaultLimit

\* The prefix option of list: the parameter, or the empty text.
list_prefix(prefix_param) == IF prefix_param.some THEN prefix_param.v ELSE <<>>

list(st, limit_param, prefix_param, failed) ==
    LET limit  == list_limit(limit_param)
        prefix == list_prefix(prefix_param)
        kvcall == KvCall("list", <<>>, limit, prefix, None, failed)
    IN  IF failed THEN Outcome(st, PropagatedError, kvcall)
        ELSE Outcome(st, Response_from_json_list(kv_list(st, limit, prefix)), kvcall)

\* A faulty put_content_type: another default.
put_content_type_octet(header) ==
    IF header.some THEN header.v ELSE "application/octet-stream"

\* The content type stored with a value: the header, or data/binary.
put_content_type(header) == IF header.some THEN header.v ELSE "data/binary"

\* A faulty put: the metadata of an entry the key already holds is kept.
put_keep_metadata(st, key, body, header, failed) ==
    LET content_type == put_content_type(header)
        kvcall       == KvCall("put_bytes", key, 0, <<>>, None, failed)
        metadata     == IF st[key].some /\ st[key].v.metadata.some
                        THEN st[key].v.metadata.v
                        ELSE ExampleMetadata(content_type)
    IN  IF failed THEN Outcome(st, PropagatedError, kvcall)
        ELSE Outcome(kv_put_bytes(st, key, body, metadata), Response_ok("inserted"), kvcall)

put(st, key, body, header, failed) ==
    LET content_type == put_content_type(header)
        kvcall       == KvCall("put_bytes", key, 0, <<>>, None, failed)
    IN  IF failed THEN Outcome(st, PropagatedError, kvcall)
        ELSE Outcome(kv_put_bytes(st, key, body, ExampleMetadata(content_type)),
                     Response_ok("inserted"), kvcall)

\* A faulty get_match: a value without metadata is answered as not found.
get_match_conflated(maybe_value, maybe_metadata) ==
    IF maybe_value.some /\ maybe_metadata.some
    THEN Response_from_bytes(maybe_value.v, Some(maybe_metadata.v.content_type))
    ELSE Response_error("key not found", 404)

\* The match of get on (maybe_value, maybe_metadata).
get_match(maybe_value, maybe_metadata) ==
    IF maybe_value.some /\ maybe_metadata.some
    THEN Response_from_bytes(maybe_value.v, Some(maybe_metadata.v.content_type))
    ELSE IF maybe_value.some
    THEN Response_error("no metadata found", 500)
    ELSE Response_error("key not found", 404)

get(st, key, failed) ==
    LET kvcall == KvCall("get_bytes_with_metadata", key, 0, <<>>, None, failed)
        read   == kv_bytes_with_metadata(st, key)
    IN  IF failed THEN Outcome(st, PropagatedError, kvcall)
        ELSE Outcome(st, get_match(read[1], read[2]), kvcall)

\* A faulty delete: a key that is not in the store is an error.
delete_checked(st, key, failed) ==
    LET kvcall == KvCall("delete", key, 0, <<>>, None, failed)
    IN  IF failed THEN Outcome(st, PropagatedError, kvcall)
        ELSE IF ~st[key].some THEN Outcome(st, Response_error("key not found", 404), kvcall)
        ELSE Outcome(kv_delete(st, key), Response_ok("deleted"), kvcall)

delete(st, key, failed) ==
    LET kvcall == KvCall("delete", key, 0, <<>>, None, failed)
    IN  IF failed THEN Outcome(st, PropagatedError, kvcall)
        ELSE Outcome(kv_delete(st, key), Response_ok("deleted"), kvcall)

\* A faulty parse_ttl: a text that does not parse counts as 0.
parse_ttl_or_default(ttl_str) ==
    IF parse_u64(ttl_str).ok THEN parse_u64(ttl_str) ELSE ParseOk(0)

\* The ttl of structured_put: Ok(ttl) or Err, of a parameter that is present.
parse_ttl(ttl_str) == parse_u64(ttl_str)

\* A faulty structured_put: the ttl is parsed before the body is.
structured_put_ttl_first(st, key, body, ttl_param, failed) ==
    LET de == from_json(body)
    IN  IF ttl_param.some /\ ~parse_ttl(ttl_param.v).ok
        THEN Outcome(st, Response_error("invalid ttl", 400), NoCall)
        ELSE IF ~de.ok THEN Outcome(st, Response_error("invalid body", 400), NoCall)
        ELSE LET ttl    == IF ttl_param.some THEN Some(parse_ttl(ttl_param.v).v) ELSE None
                 kvcall == KvCall("put", key, 0, <<>>, ttl, failed)
             IN  IF failed THEN Outcome(st, PropagatedError, kvcall)
                 ELSE Outcome(kv_put(st, key, to_json(de.value), ttl),
                              Response_ok("inserted"), kvcall)

\* A faulty structured_put: without a ttl the put is built and never executed.
structured_put_unexecuted(st, key, body, ttl_param, failed) ==
    LET de == from_json(body)
    IN  IF ~de.ok THEN Outcome(st, Response_error("invalid body", 400), NoCall)
        ELSE IF ttl_param.some /\ ~parse_ttl(ttl_param.v).ok
        THEN Outcome(st, Response_error("invalid ttl", 400), NoCall)
        ELSE LET ttl    == IF ttl_param.some THEN Some(parse_ttl(ttl_param.v).v) ELSE None
                 kvcall == KvCall("put", key, 0, <<>>, ttl, failed)
             IN  IF failed THEN Outcome(st, PropagatedError, kvcall)
                 ELSE IF ttl_param.some
                 THEN Outcome(kv_put(st, key, to_json(de.value), ttl),
                              Response_ok("inserted"), kvcall)
                 ELSE Outcome(st, Response_ok("inserted"), kvcall)

structured_put(st, key, body, ttl_param, failed) ==
    LET de == from_json(body)
    IN  IF ~de.ok THEN Outcome(st, Response_error("invalid body", 400), NoCall)
        ELSE IF ttl_param.some /\ ~parse_ttl(ttl_param.v).ok
        THEN Outcome(st, Response_error("invalid ttl", 400), NoCall)
        ELSE LET ttl    == IF ttl_param.some THEN Some(parse_ttl(ttl_param.v).v) ELSE None
                 kvcall == KvCall("put", key, 0, <<>>, ttl, failed)
             IN  IF failed THEN Outcome(st, PropagatedError, kvcall)
                 ELSE Outcome(kv_put(st, key, to_json(de.value), ttl),
                              Response_ok("inserted"), kvcall)

\* A faulty structured_get_match: no arm for Err(KvError::Serialization).
structured_get_match_no_arm(result) ==
    IF result.kind = "Ok(Some)" THEN Response_from_json_value(result.value)
    ELSE IF result.kind = "Ok(None)" THEN Response_error("key not found", 404)
    ELSE Response_error("internal server error", 500)

\* The match of structured_get on the result of the typed read.
structured_get_match(result) ==
    IF result.kind = "Ok(Some)" THEN Response_from_json_value(result.value)
    ELSE IF result.kind = "Ok(None)" THEN Response_error("key not found", 404)
    ELSE IF result.kind = "Err(Serialization)" THEN Response_error("key not found", 404)
    ELSE Response_error("internal server error", 500)

structured_get(st, key, failed) ==
    LET kvcall == KvCall("get_json", key, 0, <<>>, None, failed)
    IN  Outcome(st, structured_get_match(IF failed THEN KvOtherError ELSE kv_json(st, key)),
                kvcall)

-----------------------------------------------------------------------------
(* The state machine *)

\* The last mutation of a key: the request that made it, or its expiry.
Write(op, body, header) == [op |-> op, body |-> body, content_type |-> header]

NoWrite == Write("none", RawBytes(<<>>), None)

\* The history after request r had outcome o.
Written(r, o) ==
    IF r.op \in {"put", "structured_put", "delete"} /\ o.call.op # "none" /\ ~o.call.failed
    THEN [lastWrite EXCEPT ![r.key] = Write(r.op, r.body, r.content_type)]
    ELSE lastWrite

\* A store two earlier requests to put have filled: a with empty bytes and
\* no content-type header, ab with the JSON of ValueA as text/plain.
SeededStore ==
    put(put(EmptyStore, <<"a">>, RawBytes(<<>>), None, FALSE).store,
        <<"a", "b">>, to_json(ValueA), Some("text/plain"), FALSE).store

SeededWrites ==
    [k \in Keys |->
        IF k = <<"a">> THEN Write("put", RawBytes(<<>>), None)
        ELSE IF k = <<"a", "b">> THEN Write("put", to_json(ValueA), Some("text/plain"))
        ELSE NoWrite]

\* The store as the worker finds it: empty, or as earlier requests left it.
Init ==
    /\ \/ store = EmptyStore /\ lastWrite = [k \in Keys |-> NoWrite]
       \/ store = SeededStore /\ lastWrite = SeededWrites
    /\ req = NoRequest
    /\ resp = NoResponse
    /\ call = NoCall
    /\ handled = 0

List ==
    /\ handled < MaxRequests
    /\ \E limit \in LimitParams, prefix \in PrefixParams, failed \in BOOLEAN :
         \E r \in {Request("list", <<>>, RawBytes(<<>>), None, None, limit, prefix)},
            o \in {list(store, limit, prefix, failed)} :
             /\ handled' = handled + 1
             /\ req' = r
             /\ store' = o.store
             /\ resp' = o.resp
             /\ call' = o.call
             /\ lastWrite' = Written(r, o)

Put ==
    /\ handled < MaxRequests
    /\ \E key \in Keys, body \in PutBodies, header \in ContentTypeHeaders, failed \in BOOLEAN :
         \E r \in {Request("put", key, body, header, None, None, None)},
            o \in {put(store, key, body, header, failed)} :
             /\ handled' = handled + 1
             /\ req' = r
             /\ store' = o.store
             /\ resp' = o.resp
             /\ call' = o.call
             /\ lastWrite' = Written(r, o)

Get ==
    /\ handled < MaxRequests
    /\ \E key \in Keys, failed \in BOOLEAN :
         \E r \in {Request("get", key, RawBytes(<<>>), None, None, None, None)},
            o \in {get(store, key, failed)} :
             /\ handled' = handled + 1
             /\ req' = r
             /\ store' = o.store
             /\ resp' = o.resp
             /\ call' = o.call
             /\ lastWrite' = Written(r, o)

Delete ==
    /\ handled < MaxRequests
    /\ \E key \in Keys, failed \in BOOLEAN :
         \E r \in {Request("delete", key, RawBytes(<<>>), None, None, None, None)},
            o \in {delete(store, key, failed)} :
             /\ handled' = handled + 1
             /\ req' = r
             /\ store' = o.store
             /\ resp' = o.resp
             /\ call' = o.call
             /\ lastWrite' = Written(r, o)

StructuredPut ==
    /\ handled < MaxRequests
    /\ \E key \in Keys, body \in StructuredBodies, ttl \in TtlParams, failed \in BOOLEAN :
         \E r \in {Request("structured_put", key, body, None, ttl, None, None)},
            o \in {structured_put(store, key, body, ttl, failed)} :
             /\ handled' = handled + 1
             /\ req' = r
             /\ store' = o.store
             /\ resp' = o.resp
             /\ call' = o.call
             /\ lastWrite' = Written(r, o)

StructuredGet ==
    /\ handled < MaxRequests
    /\ \E key \in Keys, failed \in BOOLEAN :
         \E r \in {Request("structured_get", key, RawBytes(<<>>), None, None, None, None)},
            o \in {structured_get(store, key, failed)} :
             /\ handled' = handled + 1
             /\ req' = r
             /\ store' = o.store
             /\ resp' = o.resp
             /\ call' = o.call
             /\ lastWrite' = Written(r, o)

\* The store expires an entry written with a ttl; no request is involved.
Expire ==
    \E key \in Keys :
        /\ store[key].some
        /\ store[key].v.expiration_ttl.some
        /\ store' = kv_delete(store, key)
        /\ lastWrite' = [lastWrite EXCEPT ![key] = Write("expire", RawBytes(<<>>), None)]
        /\ req' = NoRequest
        /\ resp' = NoResponse
        /\ call' = NoCall
        /\ UNCHANGED handled

Next == List \/ Put \/ Get \/ Delete \/ StructuredPut \/ StructuredGet \/ Expire

Spec == Init /\ [][Next]_vars

-----------------------------------------------------------------------------
(* The responses the claims name *)

Inserted == Response(200, "inserted", RawBytes(<<>>), None, NoListing)

Deleted == Response(200, "deleted", RawBytes(<<>>), None, NoListing)

NotFound == Response(404, "key not found", RawBytes(<<>>), None, NoListing)

IntegrityFault == Response(500, "no metadata found", RawBytes(<<>>), None, NoListing)

InvalidBody == Response(400, "invalid body", RawBytes(<<>>), None, NoListing)

InvalidTtl == Response(400, "invalid ttl", RawBytes(<<>>), None, NoListing)

InternalError == Response(500, "internal server error", RawBytes(<<>>), None, NoListing)

Found(bytes, content_type) == Response(200, "", bytes, Some(content_type), NoListing)

\* The stores the handlers are evaluated on outside the behaviours.
SampleStores == {EmptyStore, SeededStore}

\* A step that handles a request.
Handles(op) == handled' = handled + 1 /\ req'.op = op

-----------------------------------------------------------------------------
(* C1 *)

C1_MatchTable ==
    \A b \in PutBodies \cup InvalidBodies, c \in {"data/binary", "text/plain"} :
        /\ get_match(Some(b), Some(ExampleMetadata(c))) = Found(b, c)
        /\ get_match(Some(b), None) = IntegrityFault
        /\ get_match(None, Some(ExampleMetadata(c))) = NotFound
        /\ get_match(None, None) = NotFound

\* C1: get answers by the value and metadata of its key in the store: both
\* present, 200 with the value and the metadata's content type; the value
\* without metadata, 500 "no metadata found"; no value, 404 "key not found",
\* whatever the metadata.
C1_GetClassification ==
    /\ C1_MatchTable
    /\ req.op = "get" /\ ~call.failed =>
         LET e == store[req.key]
         IN  /\ e.some /\ e.v.metadata.some =>
                  resp = Found(e.v.value, e.v.metadata.v.content_type)
             /\ e.some /\ ~e.v.metadata.some => resp = IntegrityFault
             /\ ~e.some => resp = NotFound

\* A get of a key that holds a value without metadata was answered 500.
C1_Witness ==
    /\ req.op = "get" /\ ~call.failed
    /\ store[req.key].some /\ ~store[req.key].v.metadata.some
    /\ resp.status = 500

-----------------------------------------------------------------------------
(* C2 *)

\* C2: the requests of the six endpoints never leave a key with a value and
\* no metadata, and get never answers 500 "no metadata found".
C2_NoIntegrityFault ==
    /\ \A k \in Keys : store[k].some => store[k].v.metadata.some
    /\ ~(req.op = "get" /\ resp = IntegrityFault)

-----------------------------------------------------------------------------
(* C3 *)

\* C3: while the last mutation of a key is a put of bytes B with content
\* type C, the key holds B with C and nothing else (no expiration of an
\* earlier entry), and get returns 200 with B and C.
C3_PutGetRoundTrip ==
    \A k \in Keys :
        lastWrite[k].op = "put" /\ lastWrite[k].content_type.some =>
            LET w == lastWrite[k]
            IN  /\ store[k] = Some(Entry(w.body, Some(ExampleMetadata(w.content_type.v)), None))
                /\ get(store, k, FALSE).resp = Found(w.body, w.content_type.v)
                /\ req.op = "get" /\ req.key = k /\ ~call.failed =>
                     resp = Found(w.body, w.content_type.v)

\* A get returned the bytes and content type of a put that overwrote the
\* entry a held in the seeded store.
C3_Witness ==
    /\ req.op = "get" /\ req.key = <<"a">> /\ store[<<"a", "b">>] = SeededStore[<<"a", "b">>]
    /\ lastWrite[<<"a">>] = Write("put", RawBytes(<<120>>), Some("text/plain"))
    /\ resp = Found(RawBytes(<<120>>), "text/plain")

-----------------------------------------------------------------------------
(* C4 *)

\* ttl texts that are no unsigned 64-bit integer.
C4_RejectedTexts ==
    { <<"-", "5">>, <<"a", "b", "c">>, <<>>, <<"+">>, <<"-">>, <<"5", "a">>,
      <<"-", "0">>, U64Overflow }

\* ttl texts that are one, with their value.
C4_AcceptedTexts ==
    { << <<"0">>, 0 >>, << <<"5">>, 5 >>, << <<"+", "5">>, 5 >>, << <<"0", "6", "0">>, 60 >> }

C4_TtlTable ==
    \A st \in SampleStores, k \in Keys, b \in ValidBodies :
        /\ \A t \in C4_RejectedTexts, failed \in BOOLEAN :
             structured_put(st, k, b, Some(t), failed) = Outcome(st, InvalidTtl, NoCall)
        /\ \A a \in C4_AcceptedTexts :
             LET o == structured_put(st, k, b, Some(a[1]), FALSE)
             IN  /\ o.resp = Inserted
                 /\ o.call = KvCall("put", k, 0, <<>>, Some(a[2]), FALSE)
                 /\ o.store[k].some /\ o.store[k].v.expiration_ttl = Some(a[2])

-----------------------------------------------------------------------------
(* C5 *)

C5_BodyTable ==
    \A st \in SampleStores, k \in Keys, b \in InvalidBodies,
       t \in TtlParams \cup MoreTtlParams, failed \in BOOLEAN :
        structured_put(st, k, b, t, failed) = Outcome(st, InvalidBody, NoCall)

\* C5: a structured put whose body does not deserialize is answered 400
\* "invalid body" whatever its ttl, makes no store call and leaves the store
\* as it was, so that get and structured get of its key answer as before.
C5_InvalidBodyRejected ==
    [][/\ C5_BodyTable
       /\ Handles("structured_put") /\ req'.body \in InvalidBodies =>
            /\ resp' = InvalidBody
            /\ call' = NoCall
            /\ store' = store
            /\ get(store', req'.key, FALSE).resp = get(store, req'.key, FALSE).resp
            /\ structured_get(store', req'.key, FALSE).resp
                 = structured_get(store, req'.key, FALSE).resp]_vars

\* A structured put with an invalid body and an invalid ttl was answered 400
\* "invalid body" while its key held an entry.
C5_Witness ==
    /\ req.op = "structured_put" /\ req.body = BarMissing
    /\ req.ttl = Some(<<"a", "b", "c">>)
    /\ resp = InvalidBody
    /\ store[req.key].some

-----------------------------------------------------------------------------
(* C6 *)

\* The JSON text the serializer is to write for the values requests carry.
JsonOfA ==
    JsonObject(<< <<"foo", JString(<<"a">>)>>, <<"bar", JNumber(<<"1", "2">>)>> >>)

JsonOfB ==
    JsonObject(<< <<"foo", JString(<<>>)>>, <<"bar", JNumber(<<"-", "5">>)>> >>)

FoundValue(json) == Response(200, "", json, None, NoListing)

C6_MatchTable ==
    /\ \A v \in SampleValues :
         structured_get_match(JsonResult("Ok(Some)", v)).status = 200
    /\ \A kind \in {"Ok(None)", "Err(Serialization)"} :
         structured_get_match(JsonResult(kind, StructuredValue(<<>>, 0))) = NotFound
    /\ structured_get_match(KvOtherError) = InternalError
    /\ \A k \in Keys, b \in InvalidBodies, h \in ContentTypeHeaders :
         structured_get(put(EmptyStore, k, b, h, FALSE).store, k, FALSE).resp = NotFound

\* C6: structured get answers 404 "key not found" for a key that is absent
\* or holds bytes that do not deserialize, 200 with the value for a key that
\* holds JSON of the schema, and 500 for another failure of the store.
C6_StructuredGetClassification ==
    /\ C6_MatchTable
    /\ req.op = "structured_get" =>
         LET e == store[req.key]
         IN  IF call.failed THEN resp = InternalError
             ELSE IF ~e.some THEN resp = NotFound
             ELSE IF e.v.value \in {RawBytes(<<>>), RawBytes(<<120>>)} THEN resp = NotFound
             ELSE /\ e.v.value \in {JsonOfA, JsonOfB}
                  /\ resp = FoundValue(e.v.value)

\* A structured get of a key that holds non-JSON bytes (written by put) was
\* answered 404.
C6_Witness ==
    /\ req.op = "structured_get" /\ ~call.failed
    /\ store[req.key].some /\ store[req.key].v.value = RawBytes(<<120>>)
    /\ lastWrite[req.key].op = "put"
    /\ resp = NotFound

-----------------------------------------------------------------------------
(* C7 *)

C7_SampleRoundTrip ==
    \A st \in SampleStores, k \in Keys, v \in SampleValues,
       t \in {None, Some(<<"5">>), Some(<<"0", "6", "0">>)} :
        LET put_o == structured_put(st, k, to_json(v), t, FALSE)
            got   == structured_get(put_o.store, k, FALSE).resp
        IN  /\ put_o.resp = Inserted
            /\ got.status = 200
            /\ from_json(got.bytes) = DeOk(v)
            /\ got.bytes.members[2][1] = "bar"
            /\ v.bar = I32Max => got.bytes.members[2][2].text = I32MaxText
            /\ v.bar = I32Min => got.bytes.members[2][2].text = <<"-">> \o I32MinMagnitudeText
            /\ v.bar = 0 => got.bytes.members[2][2].text = <<"0">>
            /\ v.bar = -1090 => got.bytes.members[2][2].text = <<"-", "1", "0", "9", "0">>

\* C7: while the last mutation of a key is a structured put of value V (no
\* later write, delete or expiry), structured get returns 200 with foo and
\* bar equal to V's.
C7_StructuredRoundTrip ==
    /\ C7_SampleRoundTrip
    /\ \A k \in Keys :
         lastWrite[k].op = "structured_put" =>
            LET json == IF lastWrite[k].body = ValueBReordered THEN JsonOfB ELSE JsonOfA
            IN  /\ lastWrite[k].body \in {ValueBReordered, JsonOfA}
                /\ structured_get(store, k, FALSE).resp = FoundValue(json)
                /\ req.op = "structured_get" /\ req.key = k /\ ~call.failed =>
                     resp = FoundValue(json)

\* A structured get returned the value of a structured put whose body had
\* its members in another order.
C7_Witness ==
    /\ req.op = "structured_get" /\ ~call.failed
    /\ lastWrite[req.key].op = "structured_put"
    /\ lastWrite[req.key].body = ValueBReordered
    /\ resp = FoundValue(JsonOfB)

-----------------------------------------------------------------------------
(* C8 *)

\* C8: delete (when the store does not fail) answers 200 "deleted" whether
\* or not the key is in the store and leaves the key absent; on an absent
\* key it leaves the store as it was, so a second delete changes nothing;
\* and while the last mutation of a key is a delete, get and structured get
\* answer 404.
C8_DeleteIdempotent ==
    /\ \A k \in Keys :
         LET o == delete(store, k, FALSE)
         IN  /\ o.resp = Deleted
             /\ ~o.store[k].some
             /\ \A j \in Keys \ {k} : o.store[j] = store[j]
             /\ ~store[k].some => o.store = store
             /\ delete(o.store, k, FALSE).resp = o.resp
             /\ delete(o.store, k, FALSE).store = o.store
    /\ \A k \in Keys :
         lastWrite[k].op = "delete" =>
            /\ ~store[k].some
            /\ get(store, k, FALSE).resp = NotFound
            /\ structured_get(store, k, FALSE).resp = NotFound
    /\ req.op = "delete" /\ ~call.failed => resp = Deleted /\ ~store[req.key].some

\* The first request was a delete of a key of the empty store, answered 200.
C8_Witness ==
    /\ handled = 1 /\ req.op = "delete" /\ ~call.failed
    /\ store = EmptyStore
    /\ resp = Deleted

-----------------------------------------------------------------------------
(* C9 *)

\* C9: while the last mutation of a key is a put without a content-type
\* header, the metadata stored has content_type "data/binary" and get
\* returns the bytes with it; a put with a header stores the header's
\* content type.
C9_DefaultContentType ==
    \A k \in Keys :
        lastWrite[k].op = "put" =>
            LET w == lastWrite[k]
            IN  /\ store[k].some /\ store[k].v.metadata.some
                /\ ~w.content_type.some =>
                     /\ store[k].v.metadata.v.content_type = "data/binary"
                     /\ get(store, k, FALSE).resp = Found(w.body, "data/binary")
                     /\ req.op = "get" /\ req.key = k /\ ~call.failed =>
                          resp = Found(w.body, "data/binary")
                /\ w.content_type.some =>
                     /\ store[k].v.metadata.v.content_type = w.content_type.v
                     /\ store[k].v.metadata.v.content_type # "data/binary"

\* A get returned bytes put without a content-type header, as data/binary.
C9_Witness ==
    /\ req.op = "get" /\ req.key = <<"b">> /\ ~call.failed
    /\ lastWrite[<<"b">>] = Write("put", RawBytes(<<120>>), None)
    /\ resp = Found(RawBytes(<<120>>), "data/binary")

-----------------------------------------------------------------------------
(* C10 *)

\* The limit list is to pass for each limit parameter, read as an unsigned
\* integer.
C10_Limits ==
    { <<None, 100>>, <<Some(<<"2">>), 2>>, <<Some(<<"0">>), 0>>, <<Some(<<"-", "1">>), 100>>,
      <<Some(<<"a", "b", "c">>), 100>>, <<Some(<<"1">>), 1>>, <<Some(<<"+", "3">>), 3>>,
      <<Some(<<>>), 100>>, <<Some(<<"1", "0", "0", "0">>), 1000>>,
      <<Some(U64Overflow), 100>> }

\* The same, read as an integer: -1 is one.
C10_LimitsAsInteger ==
    { <<None, 100>>, <<Some(<<"2">>), 2>>, <<Some(<<"0">>), 0>>, <<Some(<<"-", "1">>), -1>>,
      <<Some(<<"a", "b", "c">>), 100>> }

\* A store that holds all three keys.
FullStore == put(SeededStore, <<"b">>, RawBytes(<<120>>), None, FALSE).store

\* A listing of st has at most limit keys, all of them keys of st that start
\* with prefix, in the store's order and without repetition.
C10_ListingOf(listing, st, limit, prefix) ==
    /\ Len(listing.keys) <= limit
    /\ \A i \in 1..Len(listing.keys) :
         /\ listing.keys[i] \in Keys
         /\ st[listing.keys[i]].some
         /\ starts_with(listing.keys[i], prefix)
    /\ \A i, j \in 1..Len(listing.keys) :
         i < j => \E a, b \in 1..Len(KeyOrder) :
                     a < b /\ KeyOrder[a] = listing.keys[i] /\ KeyOrder[b] = listing.keys[j]

C10_ListTable ==
    \A st \in SampleStores \cup {FullStore}, l \in C10_Limits,
       p \in PrefixParams \cup MorePrefixParams, failed \in BOOLEAN :
        LET o      == list(st, l[1], p, failed)
            prefix == IF p = None THEN <<>> ELSE p.v
        IN  /\ o.store = st
            /\ o.call = KvCall("list", <<>>, l[2], prefix, None, failed)
            /\ ~failed => o.resp.status = 200
                          /\ C10_ListingOf(o.resp.listing, st, l[2], prefix)

\* C10 as claimed: list passes the store the limit parameter's value when
\* the parameter is an integer, and 100 when it is absent or is none.
C10_Original ==
    req.op = "list" => \E l \in C10_LimitsAsInteger : l[1] = req.limit /\ call.limit = l[2]

\* C10, amended: list passes the store a limit of 100 when the limit
\* parameter is absent or is no unsigned integer (-1, abc), its value
\* otherwise, and the prefix parameter or the empty text; the listing has at
\* most limit keys, all starting with the prefix; list leaves the store as
\* it was.
C10_ListOptions ==
    [][/\ C10_ListTable
       /\ Handles("list") =>
            /\ store' = store
            /\ call'.op = "list"
            /\ \E l \in C10_Limits : l[1] = req'.limit /\ call'.limit = l[2]
            /\ call'.prefix = (IF req'.prefix = None THEN <<>> ELSE req'.prefix.v)
            /\ ~call'.failed =>
                 /\ resp'.status = 200
                 /\ C10_ListingOf(resp'.listing, store, call'.limit, call'.prefix)]_vars

\* A list with limit=2 of a store that holds three keys returned two keys.
C10_Witness ==
    /\ req.op = "list" /\ req.limit = Some(<<"2">>) /\ ~call.failed
    /\ \A k \in Keys : store[k].some
    /\ Len(resp.listing.keys) = 2
    /\ ~resp.listing.list_complete

====
